---- MODULE Spec2Model ----
(***************************************************************************)
(* Price-comparison app: the update-prices serverless handler (refresh     *)
(* job, alert check, notification dispatch), the scrape handler (per-store *)
(* adapters), and the pages (home, search, favorites, product details)     *)
(* with the tables they read and the price_alerts rows they create.        *)
(*                                                                         *)
(* Prices are whole currency units.  Math.random() is the environment: a   *)
(* draw says, per store, whether the simulated price changed and with      *)
(* which (oldPrice, percent) sample.  An awaited call may reject; the      *)
(* handlers' try/catch blocks decide what happens then.                    *)
(***************************************************************************)
EXTENDS Integers, Sequences, FiniteSets, TLC

\* ---------------------------------------------------------------- bounds
MaxBatch == 2          \* Spec: longest productIds array of a request
JobChangingStores == 1 \* Spec: only the first stores of the list see price changes
MaxAlertBatch == 1     \* AlertSpec: longest productIds array of a request
MaxProductRuns == 2    \* AlertSpec: products submitted over the whole run
AlertChangingStores == 2 \* AlertSpec: only the first stores see price changes
MaxAlerts == 1         \* AlertSpec: price_alerts rows created over the run
NumHandlers == 2       \* AlertSpec: update-prices requests in flight at once
MaxStoreList == 2      \* longest stores array a scrape request carries
MaxMaxResults == 2     \* largest maxResults a scrape request carries
MaxClock == 2          \* PageSpec: days the clock advances
MaxRows == 2           \* rows written to prices, price_history, user_favorites
MaxSearches == 2       \* SearchSpec: calls of performSearch per mount of the page
MaxMatches == 2        \* SearchSpec: matches an ai-search response carries

\* ------------------------------------------------------- program constants
AlertThreshold == 10   \* checkPriceAlerts: update.change < -10
DefaultMaxResults == 5 \* scrape handler: maxResults = 5
HistoryWindow == 1     \* loadFavorites: 24 * 60 * 60 * 1000 ms, in days
HistoryLimit == 5      \* loadFavorites: price_history.list limit: 5
PricesLimit == 10      \* the other pages: prices.list limit: 10
FeaturedLimit == 6     \* loadFeaturedProducts: products.list limit: 6
SearchLimit == 50      \* performSearch: products.list limit: 50

Products == {"p1", "p2"}
Handlers == 1..NumHandlers
AlertIds == 1..MaxAlerts
TargetPrices == {100}

\* updateProductPrices: const stores = [...]
stores == <<"amazon", "walmart", "target", "bestbuy">>

\* One simulated price change: oldPrice and changePercent (in percent).
\* The code draws oldPrice in [100, 600) and changePercent in [-10, 10).
Samples == {[oldPrice |-> 200, pct |-> -10], [oldPrice |-> 100, pct |-> -5]}
NoChange == [oldPrice |-> 0, pct |-> 0]

\* The outcomes of the Math.random() calls of one updateProductPrices call:
\* per store, no change (random >= 0.1) or a sample.  Only the first
\* `changing` stores of the list draw a change.
Draws(changing) ==
  {d \in [1..Len(stores) -> Samples \cup {NoChange}] :
      \A i \in 1..Len(stores) : i > changing => d[i] = NoChange}

RECURSIVE SeqsUpTo(_, _)
SeqsUpTo(S, n) ==
  IF n = 0 THEN {<<>>}
  ELSE LET shorter == SeqsUpTo(S, n - 1)
       IN shorter \cup {Append(s, x) : s \in {t \in shorter : Len(t) = n - 1}, x \in S}

Batches(ids, maxLen) == SeqsUpTo(ids, maxLen)

\* ------------------------------------------------------------ pure code
\* interface PriceUpdate, as built in updateProductPrices' loop body
PriceUpdate(productId, storeId, sample) ==
  LET newPrice == sample.oldPrice + (sample.oldPrice * sample.pct) \div 100
  IN [productId |-> productId, storeId |-> storeId,
      oldPrice |-> sample.oldPrice, newPrice |-> newPrice,
      change |-> newPrice - sample.oldPrice, changePercent |-> sample.pct]

RECURSIVE UpdatesFrom(_, _, _)
UpdatesFrom(productId, draw, i) ==
  IF i > Len(stores) THEN <<>>
  ELSE (IF draw[i] = NoChange THEN <<>>
        ELSE <<PriceUpdate(productId, stores[i], draw[i])>>)
       \o UpdatesFrom(productId, draw, i + 1)

\* updateProductPrices(productId): the updates it returns under a draw
updateProductPrices(productId, draw) == UpdatesFrom(productId, draw, 1)

Abs(x) == IF x < 0 THEN -x ELSE x

\* the test of checkPriceAlerts' loop body
PriceDropped(update) == update.change < -AlertThreshold

Notification(update) ==
  [productId |-> update.productId, storeId |-> update.storeId,
   alertType |-> "price_drop", oldPrice |-> update.oldPrice,
   newPrice |-> update.newPrice, savings |-> Abs(update.change)]

\* A faulty check: with no update at hand it reports a drop all the same.
checkPriceAlertsStale(productId, ups) ==
  IF ups = <<>>
  THEN <<Notification(PriceUpdate(productId, stores[1], [oldPrice |-> 200, pct |-> -10]))>>
  ELSE LET dropped == SelectSeq(ups, PriceDropped)
       IN [i \in 1..Len(dropped) |-> Notification(dropped[i])]

RECURSIVE checkPriceAlerts(_, _)
checkPriceAlerts(productId, ups) ==
  IF ups = <<>> THEN <<>>
  ELSE (IF PriceDropped(Head(ups)) THEN <<Notification(Head(ups))>> ELSE <<>>)
       \o checkPriceAlerts(productId, Tail(ups))

\* ----------------------------------------------------------------- state
VARIABLES
  alerts,          \* price_alerts rows (created by the product page)
  fired,           \* history: per alert id, alert checks that created a
                   \* notification for its product since the row was created
  remaining,       \* AlertSpec: products the environment may still submit
  pc,              \* per handler: position in the update-prices handler
  req,             \* per handler: the request being served (method, body shape)
  productIds,      \* per handler: the request's productIds
  idx,             \* per handler: 1-based position of the for loop
  productUpdates,  \* per handler: const productUpdates of this iteration
  updates,         \* per handler: const updates
  notifications,   \* per handler: const notifications
  errors,          \* per handler: loop positions logged by the inner catch
  sent,            \* per handler: batches handed to sendPriceAlertNotifications
  returned,        \* history, per handler: what each updateProductPrices call returned
  seen,            \* history, per handler: alert rows on the product when it was checked
  response         \* per handler: the Response returned

upVars == <<alerts, fired, remaining, pc, req, productIds, idx, productUpdates,
            updates, notifications, errors, sent, returned, seen, response>>

\* the scrape handler's state
VARIABLES
  spc,          \* position in the scrape handler
  sstores,      \* the request's stores array
  smax,         \* the request's maxResults (DefaultMaxResults when absent)
  sidx,         \* 1-based position of the for loop over stores
  results,      \* const results
  attempts,     \* history: per position of stores, calls of scrapeStore made
  scraped,      \* history: what each scrapeStore call that returned gave
  sresponse     \* the Response returned

scVars == <<spc, sstores, smax, sidx, results, attempts, scraped, sresponse>>

\* the database tables the pages read, and the state of the mounted page
VARIABLES
  clock,            \* Date.now(), in days
  prices,           \* table prices, in insertion order
  price_history,    \* table price_history, in insertion order
  user_favorites,   \* table user_favorites, in insertion order
  page,             \* the route mounted: "none", "home", "search", "favorites", "product"
  loading,          \* the mounted page's loading
  inflight,         \* the mounted page's loader has not settled yet
  featuredProducts, \* HomePage
  products,         \* SearchResultsPage
  favorites,        \* FavoritesPage
  productPrices,    \* HomePage, SearchResultsPage, FavoritesPage
  product,          \* ProductDetailsPage
  currentPrices,    \* ProductDetailsPage
  alertPrice,       \* ProductDetailsPage: the text of the alert-price input
  toasted,          \* title of the last toast shown, "none" before any
  searches,         \* SearchResultsPage: the calls of performSearch since the mount
  user,             \* App: user
  authLoading       \* App: loading

\* the ai-search handler
VARIABLES
  apc,              \* "idle", "done"
  areq,             \* the request being served
  aresponse         \* the response returned

aiVars == <<apc, areq, aresponse>>
appVars == <<user, authLoading>>

dbVars == <<clock, prices, price_history, user_favorites>>
pageVars == <<page, loading, inflight, featuredProducts, products, favorites,
              productPrices, product, currentPrices, alertPrice, toasted>>
uiVars == <<dbVars, pageVars, searches, appVars>>

NoResponse == [kind |-> "none"]
NoRequest == [method |-> "none", body |-> "none"]

UpInit ==
  /\ alerts = {}
  /\ fired = [a \in AlertIds |-> 0]
  /\ remaining = MaxProductRuns
  /\ pc = [j \in Handlers |-> "idle"]
  /\ req = [j \in Handlers |-> NoRequest]
  /\ productIds = [j \in Handlers |-> <<>>]
  /\ idx = [j \in Handlers |-> 0]
  /\ productUpdates = [j \in Handlers |-> <<>>]
  /\ updates = [j \in Handlers |-> <<>>]
  /\ notifications = [j \in Handlers |-> <<>>]
  /\ errors = [j \in Handlers |-> <<>>]
  /\ sent = [j \in Handlers |-> <<>>]
  /\ returned = [j \in Handlers |-> <<>>]
  /\ seen = [j \in Handlers |-> {}]
  /\ response = [j \in Handlers |-> NoResponse]

\* ------------------------------------------------- product page: alerts
\* A faulty creation: the row is stored switched off.
CreatePriceAlertInactive(a, productId, targetPrice) ==
  /\ a \notin {r.id : r \in alerts}
  /\ alerts' = alerts \cup {[id |-> a, user_id |-> "u1", product_id |-> productId,
                             target_price |-> targetPrice, is_active |-> "0"]}
  /\ fired' = [fired EXCEPT ![a] = 0]
  /\ UNCHANGED <<remaining, pc, req, productIds, idx, productUpdates, updates,
                 notifications, errors, sent, returned, seen, response>>
  /\ UNCHANGED <<scVars, uiVars, aiVars>>

\* createPriceAlert with a loaded product and a valid alertPrice
CreatePriceAlert(a, productId, targetPrice) ==
  /\ a \notin {r.id : r \in alerts}
  /\ alerts' = alerts \cup {[id |-> a, user_id |-> "u1", product_id |-> productId,
                             target_price |-> targetPrice, is_active |-> "1"]}
  /\ fired' = [fired EXCEPT ![a] = 0]
  /\ UNCHANGED <<remaining, pc, req, productIds, idx, productUpdates, updates,
                 notifications, errors, sent, returned, seen, response>>
  /\ UNCHANGED <<scVars, uiVars, aiVars>>

\* ------------------------------------------------ update-prices handler
Locals == <<productIds, idx, productUpdates, updates, notifications, errors, sent,
            returned, seen>>

\* return new Response(...) before the loop is entered
ReturnEarly(j, request, r) ==
  /\ pc[j] = "idle"
  /\ req' = [req EXCEPT ![j] = request]
  /\ response' = [response EXCEPT ![j] = r]
  /\ pc' = [pc EXCEPT ![j] = "done"]
  /\ UNCHANGED <<alerts, fired, remaining>>
  /\ UNCHANGED Locals
  /\ UNCHANGED <<scVars, uiVars, aiVars>>

\* req.method === 'OPTIONS'
Preflight(j) ==
  ReturnEarly(j, [method |-> "OPTIONS", body |-> "none"],
              [kind |-> "preflight", status |-> 200])

\* req.method !== 'POST'
MethodNotAllowed(j) ==
  ReturnEarly(j, [method |-> "GET", body |-> "none"],
              [kind |-> "error", status |-> 405, error |-> "Method not allowed"])

\* await req.json() rejects, or its value cannot be destructured: outer catch
BodyUnreadable(j) ==
  ReturnEarly(j, [method |-> "POST", body |-> "unreadable"],
              [kind |-> "failure", status |-> 500, success |-> FALSE,
               error |-> "Failed to update prices"])

\* A faulty validation: it throws instead of answering 400.
ProductIdsRequiredThrows(j, shape) ==
  ReturnEarly(j, [method |-> "POST", body |-> shape],
              [kind |-> "failure", status |-> 500, success |-> FALSE,
               error |-> "Failed to update prices"])

\* !productIds || !Array.isArray(productIds): productIds is missing (or
\* otherwise falsy), or is a value that is not an array
ProductIdsRequired(j, shape) ==
  ReturnEarly(j, [method |-> "POST", body |-> shape],
              [kind |-> "error", status |-> 400,
               error |-> "Product IDs array is required"])

\* productIds is an array (possibly empty): the loop is entered
Accept(j, ids) ==
  /\ pc[j] = "idle"
  /\ req' = [req EXCEPT ![j] = [method |-> "POST", body |-> "array"]]
  /\ productIds' = [productIds EXCEPT ![j] = ids]
  /\ idx' = [idx EXCEPT ![j] = 1]
  /\ pc' = [pc EXCEPT ![j] = "loop"]
  /\ UNCHANGED <<alerts, fired, productUpdates, updates, notifications, errors,
                 sent, returned, seen, response>>
  /\ UNCHANGED <<scVars, uiVars, aiVars>>

\* a request with an array of product ids arrives
Submit(j, ids) == Accept(j, ids) /\ UNCHANGED remaining

\* the same, counted against the products the run may submit
SubmitCounted(j, ids) ==
  /\ Len(ids) <= remaining
  /\ remaining' = remaining - Len(ids)
  /\ Accept(j, ids)

InLoop(j) == pc[j] = "loop" /\ idx[j] <= Len(productIds[j])
LoopOver(j) == pc[j] = "loop" /\ idx[j] > Len(productIds[j])

\* const productUpdates = await updateProductPrices(productId); updates.push(...)
UpdateProductPrices(j, draw) ==
  /\ InLoop(j)
  /\ LET ups == updateProductPrices(productIds[j][idx[j]], draw)
     IN /\ productUpdates' = [productUpdates EXCEPT ![j] = ups]
        /\ updates' = [updates EXCEPT ![j] = @ \o ups]
        /\ returned' = [returned EXCEPT ![j] = Append(@, [pos |-> idx[j], ups |-> ups])]
  /\ pc' = [pc EXCEPT ![j] = "check"]
  /\ UNCHANGED <<alerts, fired, remaining, req, productIds, idx, notifications,
                 errors, sent, seen, response>>
  /\ UNCHANGED <<scVars, uiVars, aiVars>>

\* A faulty per-product catch: it gives up on the rest of the batch.
CatchProductErrorAborts(j) ==
  /\ errors' = [errors EXCEPT ![j] = Append(@, idx[j])]
  /\ idx' = [idx EXCEPT ![j] = Len(productIds[j]) + 1]
  /\ productUpdates' = [productUpdates EXCEPT ![j] = <<>>]
  /\ pc' = [pc EXCEPT ![j] = "loop"]

\* catch (error) { console.error(...) } of the per-product try
CatchProductError(j) ==
  /\ errors' = [errors EXCEPT ![j] = Append(@, idx[j])]
  /\ idx' = [idx EXCEPT ![j] = @ + 1]
  /\ productUpdates' = [productUpdates EXCEPT ![j] = <<>>]
  /\ pc' = [pc EXCEPT ![j] = "loop"]

\* updateProductPrices rejects
UpdateRaises(j) ==
  /\ InLoop(j)
  /\ CatchProductError(j)
  /\ UNCHANGED <<alerts, fired, remaining, req, productIds, updates, notifications,
                 sent, returned, seen, response>>
  /\ UNCHANGED <<scVars, uiVars, aiVars>>

\* const alertNotifications = await checkPriceAlerts(...); notifications.push(...)
CheckPriceAlerts(j) ==
  /\ pc[j] = "check"
  /\ LET p == productIds[j][idx[j]]
         alertNotifications == checkPriceAlerts(p, productUpdates[j])
     IN /\ notifications' = [notifications EXCEPT ![j] = @ \o alertNotifications]
        /\ fired' = [a \in AlertIds |->
                       IF \E r \in alerts : r.id = a /\ r.product_id = p
                            /\ alertNotifications # <<>>
                       THEN fired[a] + 1 ELSE fired[a]]
        /\ seen' = [seen EXCEPT ![j] = @ \cup {r \in alerts : r.product_id = p}]
  /\ idx' = [idx EXCEPT ![j] = @ + 1]
  /\ productUpdates' = [productUpdates EXCEPT ![j] = <<>>]
  /\ pc' = [pc EXCEPT ![j] = "loop"]
  /\ UNCHANGED <<alerts, remaining, req, productIds, updates, errors, sent,
                 returned, response>>
  /\ UNCHANGED <<scVars, uiVars, aiVars>>

\* checkPriceAlerts rejects: the updates are already pushed
CheckRaises(j) ==
  /\ pc[j] = "check"
  /\ CatchProductError(j)
  /\ UNCHANGED <<alerts, fired, remaining, req, productIds, updates, notifications,
                 sent, returned, seen, response>>
  /\ UNCHANGED <<scVars, uiVars, aiVars>>

\* A faulty dispatch: it is called from inside the loop, with the notifications
\* collected so far.
SendPriceAlertNotificationsEarly(j) ==
  /\ pc[j] = "loop"
  /\ Len(notifications[j]) > 0
  /\ sent' = [sent EXCEPT ![j] = Append(@, notifications[j])]
  /\ pc' = [pc EXCEPT ![j] = IF LoopOver(j) THEN "respond" ELSE "loop"]
  /\ UNCHANGED <<alerts, fired, remaining, req, productIds, idx, productUpdates,
                 updates, notifications, errors, returned, seen, response>>
  /\ UNCHANGED <<scVars, uiVars, aiVars>>

\* if (notifications.length > 0) await sendPriceAlertNotifications(notifications)
SendPriceAlertNotifications(j) ==
  /\ LoopOver(j)
  /\ Len(notifications[j]) > 0
  /\ sent' = [sent EXCEPT ![j] = Append(@, notifications[j])]
  /\ pc' = [pc EXCEPT ![j] = "respond"]
  /\ UNCHANGED <<alerts, fired, remaining, req, productIds, idx, productUpdates,
                 updates, notifications, errors, returned, seen, response>>
  /\ UNCHANGED <<scVars, uiVars, aiVars>>

\* sendPriceAlertNotifications rejects: the outer catch answers 500
SendRaises(j) ==
  /\ LoopOver(j)
  /\ Len(notifications[j]) > 0
  /\ response' = [response EXCEPT ![j] =
                    [kind |-> "failure", status |-> 500, success |-> FALSE,
                     error |-> "Failed to update prices"]]
  /\ pc' = [pc EXCEPT ![j] = "done"]
  /\ UNCHANGED <<alerts, fired, remaining, req, Locals>>
  /\ UNCHANGED <<scVars, uiVars, aiVars>>

\* the body of the success Response
Summary(ids, ups, notes) ==
  [kind |-> "summary", status |-> 200, success |-> TRUE,
   updatedProducts |-> Len(ids), priceUpdates |-> Len(ups),
   notifications |-> Len(notes), updates |-> ups]

\* A faulty success return: it does not wait for the loop to end.
RespondInLoop(j) ==
  /\ \/ pc[j] = "respond"
     \/ pc[j] = "loop" /\ Len(notifications[j]) = 0
  /\ response' = [response EXCEPT ![j] =
                    Summary(productIds[j], updates[j], notifications[j])]
  /\ pc' = [pc EXCEPT ![j] = "done"]
  /\ UNCHANGED <<alerts, fired, remaining, req, Locals>>
  /\ UNCHANGED <<scVars, uiVars, aiVars>>

\* return new Response(JSON.stringify({success: true, ...}))
Respond(j) ==
  /\ \/ pc[j] = "respond"
     \/ LoopOver(j) /\ Len(notifications[j]) = 0
  /\ response' = [response EXCEPT ![j] =
                    Summary(productIds[j], updates[j], notifications[j])]
  /\ pc' = [pc EXCEPT ![j] = "done"]
  /\ UNCHANGED <<alerts, fired, remaining, req, Locals>>
  /\ UNCHANGED <<scVars, uiVars, aiVars>>

\* the request is over: the handler can serve the next one
Close(j) ==
  /\ pc[j] = "done"
  /\ pc' = [pc EXCEPT ![j] = "idle"]
  /\ req' = [req EXCEPT ![j] = NoRequest]
  /\ returned' = [returned EXCEPT ![j] = <<>>]
  /\ seen' = [seen EXCEPT ![j] = {}]
  /\ productIds' = [productIds EXCEPT ![j] = <<>>]
  /\ idx' = [idx EXCEPT ![j] = 0]
  /\ productUpdates' = [productUpdates EXCEPT ![j] = <<>>]
  /\ updates' = [updates EXCEPT ![j] = <<>>]
  /\ notifications' = [notifications EXCEPT ![j] = <<>>]
  /\ errors' = [errors EXCEPT ![j] = <<>>]
  /\ sent' = [sent EXCEPT ![j] = <<>>]
  /\ response' = [response EXCEPT ![j] = NoResponse]
  /\ UNCHANGED <<alerts, fired, remaining>>
  /\ UNCHANGED <<scVars, uiVars, aiVars>>

\* the handler's returns before the loop
EarlyReturn(j) ==
  \/ Preflight(j)
  \/ MethodNotAllowed(j)
  \/ BodyUnreadable(j)
  \/ \E shape \in {"missing", "notArray"} : ProductIdsRequired(j, shape)

\* the handler's steps once a request is accepted
JobStep(j) ==
  \/ UpdateRaises(j)
  \/ CheckPriceAlerts(j)
  \/ CheckRaises(j)
  \/ SendPriceAlertNotifications(j)
  \/ SendRaises(j)
  \/ Respond(j)
  \/ Close(j)

\* ------------------------------------------------------- scrape handler
\* Values a request's stores array holds: adapter names in any case, a name no
\* adapter has, and a value that is not a string.
StoreNames == {"amazon", "Walmart", "ebay", "NotAString"}

\* String.prototype.toLowerCase on the texts of the model
ToLowerCase(text) ==
  CASE text = "Walmart" -> "walmart"
    [] text = "Apple iPhone" -> "apple iphone"
    [] text = "Apple" -> "apple"
    [] text = "Electronics" -> "electronics"
    [] text = "iPhone 15 Pro" -> "iphone 15 pro"
    [] text = "MacBook Air M3" -> "macbook air m3"
    [] text = "AirPods Pro (2nd generation)" -> "airpods pro (2nd generation)"
    [] OTHER -> text

\* Array.prototype.slice(0, end)
Slice(arr, end) ==
  LET e == IF end < 0 THEN (IF Len(arr) + end < 0 THEN 0 ELSE Len(arr) + end)
           ELSE (IF end > Len(arr) THEN Len(arr) ELSE end)
  IN SubSeq(arr, 1, e)

\* the mockResults of scrapeAmazon, scrapeWalmart, scrapeTarget, scrapeBestBuy
MockResults(label, price, shipping) ==
  <<[store |-> label, price |-> price, availability |-> "in_stock",
     shipping |-> shipping]>>

\* Math.random() * 500 + 100 and the like, in whole units
MockPrices == {150, 400}

\* the case labels of scrapeStore's switch
AdapterNames == {"amazon", "walmart", "target", "bestbuy"}

\* A faulty scrapeStore: the adapters return their mockResults uncut.
scrapeStoreUncut(store, price, maxResults) ==
  LET name == ToLowerCase(store)
  IN IF name = "amazon" THEN MockResults("Amazon", price, 0)
     ELSE IF name = "walmart" THEN MockResults("Walmart", price, 599)
     ELSE <<>>

\* scrapeStore(store, productName, maxResults) for a string store
scrapeStore(store, price, maxResults) ==
  LET name == ToLowerCase(store)
  IN IF name = "amazon" THEN Slice(MockResults("Amazon", price, 0), maxResults)
     ELSE IF name = "walmart" THEN Slice(MockResults("Walmart", price, 599), maxResults)
     ELSE IF name = "target" THEN Slice(MockResults("Target", price, 0), maxResults)
     ELSE IF name = "bestbuy" THEN Slice(MockResults("Best Buy", price, 0), maxResults)
     ELSE <<>>

ScInit ==
  /\ spc = "idle"
  /\ sstores = <<>>
  /\ smax = 0
  /\ sidx = 0
  /\ results = <<>>
  /\ attempts = <<>>
  /\ scraped = <<>>
  /\ sresponse = NoResponse

ScrapeReturnEarly(r) ==
  /\ spc = "idle"
  /\ sresponse' = r
  /\ spc' = "done"
  /\ UNCHANGED <<sstores, smax, sidx, results, attempts, scraped>>
  /\ UNCHANGED <<upVars, uiVars, aiVars>>

\* req.method === 'OPTIONS'
ScrapePreflight == ScrapeReturnEarly([kind |-> "preflight", status |-> 200])

\* req.method !== 'POST'
ScrapeMethodNotAllowed ==
  ScrapeReturnEarly([kind |-> "error", status |-> 405, error |-> "Method not allowed"])

\* !productName
ProductNameRequired ==
  ScrapeReturnEarly([kind |-> "error", status |-> 400,
                     error |-> "Product name is required"])

\* await req.json() rejects, or stores cannot be iterated: outer catch
ScrapeError ==
  ScrapeReturnEarly([kind |-> "failure", status |-> 500, success |-> FALSE,
                     error |-> "Failed to scrape prices"])

\* a POST with a productName: stores and maxResults as given or defaulted
ScrapeAccept(storeList, maxResults) ==
  /\ spc = "idle"
  /\ sstores' = storeList
  /\ smax' = maxResults
  /\ sidx' = 1
  /\ results' = <<>>
  /\ attempts' = [i \in 1..Len(storeList) |-> 0]
  /\ scraped' = <<>>
  /\ spc' = "loop"
  /\ UNCHANGED sresponse
  /\ UNCHANGED <<upVars, uiVars, aiVars>>

\* const storeResults = await scrapeStore(...); results.push(...storeResults)
ScrapeStore(price) ==
  /\ spc = "loop"
  /\ sidx <= Len(sstores)
  /\ sstores[sidx] # "NotAString"
  /\ LET storeResults == scrapeStore(sstores[sidx], price, smax)
     IN /\ results' = results \o storeResults
        /\ scraped' = Append(scraped, [pos |-> sidx, quotes |-> storeResults])
  /\ attempts' = [attempts EXCEPT ![sidx] = @ + 1]
  /\ sidx' = sidx + 1
  /\ UNCHANGED <<spc, sstores, smax, sresponse>>
  /\ UNCHANGED <<upVars, uiVars, aiVars>>

\* A faulty per-store catch: the store's failure reaches the outer catch.
ScrapeStoreRaisesFatal ==
  /\ spc = "loop"
  /\ sidx <= Len(sstores)
  /\ attempts' = [attempts EXCEPT ![sidx] = @ + 1]
  /\ sresponse' = [kind |-> "failure", status |-> 500, success |-> FALSE,
                   error |-> "Failed to scrape prices"]
  /\ spc' = "done"
  /\ UNCHANGED <<sstores, smax, sidx, results, scraped>>
  /\ UNCHANGED <<upVars, uiVars, aiVars>>

\* scrapeStore rejects (store.toLowerCase is not a function, or the adapter
\* fails; the default branch of the switch returns [] and cannot reject):
\* catch (error) { console.error(...) }, continue with the next store
ScrapeStoreRaises ==
  /\ spc = "loop"
  /\ sidx <= Len(sstores)
  /\ \/ sstores[sidx] = "NotAString"
     \/ ToLowerCase(sstores[sidx]) \in AdapterNames
  /\ attempts' = [attempts EXCEPT ![sidx] = @ + 1]
  /\ sidx' = sidx + 1
  /\ UNCHANGED <<spc, sstores, smax, results, scraped, sresponse>>
  /\ UNCHANGED <<upVars, uiVars, aiVars>>

\* return new Response(JSON.stringify({success: true, ...}))
ScrapeRespond ==
  /\ spc = "loop"
  /\ sidx > Len(sstores)
  /\ sresponse' = [kind |-> "scraped", status |-> 200, success |-> TRUE,
                   results |-> Slice(results, smax * Len(sstores)),
                   totalResults |-> Len(results)]
  /\ spc' = "done"
  /\ UNCHANGED <<sstores, smax, sidx, results, attempts, scraped>>
  /\ UNCHANGED <<upVars, uiVars, aiVars>>

ScrapeClose ==
  /\ spc = "done"
  /\ spc' = "idle"
  /\ sstores' = <<>>
  /\ smax' = 0
  /\ sidx' = 0
  /\ results' = <<>>
  /\ attempts' = <<>>
  /\ scraped' = <<>>
  /\ sresponse' = NoResponse
  /\ UNCHANGED <<upVars, uiVars, aiVars>>

StoreLists == SeqsUpTo(StoreNames, MaxStoreList)
\* maxResults as sent (negative and zero included), or the default when absent
MaxResultsValues == ((-1)..MaxMaxResults) \cup {DefaultMaxResults}

\* ------------------------------------------------------------ the pages
NoProduct == "null"
NoPrices == [p \in {} |-> <<>>]

NoUser == "null"

\* App renders the Router: if (loading) and if (!user) both passed
Authenticated == ~authLoading /\ user # NoUser

\* a page component as first rendered under the Router: the useState initial
\* values
Mounted(route) ==
  /\ Authenticated
  /\ UNCHANGED appVars
  /\ page' = route
  /\ loading' = TRUE
  /\ inflight' = TRUE
  /\ featuredProducts' = <<>>
  /\ products' = <<>>
  /\ favorites' = <<>>
  /\ productPrices' = NoPrices
  /\ product' = NoProduct
  /\ currentPrices' = <<>>
  /\ alertPrice' = ""

UiInit ==
  /\ clock = 0
  /\ prices = <<>>
  /\ price_history = <<>>
  /\ user_favorites = <<>>
  /\ page = "none"
  /\ loading = TRUE
  /\ inflight = FALSE
  /\ featuredProducts = <<>>
  /\ products = <<>>
  /\ favorites = <<>>
  /\ productPrices = NoPrices
  /\ product = NoProduct
  /\ currentPrices = <<>>
  /\ alertPrice = ""
  /\ toasted = "none"
  /\ searches = <<>>
  /\ user = NoUser
  /\ authLoading = TRUE

AiInit ==
  /\ apc = "idle"
  /\ areq = NoRequest
  /\ aresponse = NoResponse

\* A faulty App: the Router stays rendered whatever the auth state.
AuthStateChangedKeepsRoutes(stateUser, isLoading) ==
  /\ user' = stateUser
  /\ authLoading' = isLoading
  /\ UNCHANGED <<pageVars, searches>>
  /\ UNCHANGED <<dbVars, upVars, scVars, aiVars>>

\* blink.auth.onAuthStateChanged((state) => { setUser(state.user);
\* setLoading(state.isLoading) }): without a user, or while loading, App
\* renders no Router and the mounted page is gone
AuthStateChanged(stateUser, isLoading) ==
  /\ user' = stateUser
  /\ authLoading' = isLoading
  /\ IF ~isLoading /\ stateUser # NoUser
        THEN UNCHANGED <<pageVars, searches>>
        ELSE /\ page' = "none"
             /\ inflight' = FALSE
             /\ searches' = <<>>
             /\ UNCHANGED <<loading, featuredProducts, products, favorites,
                            productPrices, product, currentPrices, alertPrice,
                            toasted>>
  /\ UNCHANGED <<dbVars, upVars, scVars, aiVars>>

\* the user signs in
SignedIn == AuthStateChanged("u1", FALSE)

\* The tables are written outside this repository: the environment appends
\* rows stamped with the current time; time passes.
Rows == Len(prices) + Len(price_history) + Len(user_favorites)

PriceValues == {90, 100}

\* `fav_${Date.now()}_${Math.random()...}`: an id no row of the table has
FreshId(rows) ==
  CHOOSE i \in 1..(Len(rows) + 1) :
    /\ \A n \in DOMAIN rows : rows[n].id # i
    /\ \A k \in 1..(i - 1) : \E n \in DOMAIN rows : rows[n].id = k

Tick ==
  /\ clock < MaxClock
  /\ clock' = clock + 1
  /\ UNCHANGED <<prices, price_history, user_favorites>>
  /\ UNCHANGED <<upVars, scVars, pageVars, aiVars, appVars, searches>>

WritePrice(productId, price) ==
  /\ Rows < MaxRows
  /\ prices' = Append(prices, [product_id |-> productId, store_id |-> "amazon",
                               price |-> price, created_at |-> clock])
  /\ UNCHANGED <<clock, price_history, user_favorites>>
  /\ UNCHANGED <<upVars, scVars, pageVars, aiVars, appVars, searches>>

WriteHistory(productId, price) ==
  /\ Rows < MaxRows
  /\ price_history' = Append(price_history,
                              [product_id |-> productId, store_id |-> "amazon",
                               price |-> price, scraped_at |-> clock])
  /\ UNCHANGED <<clock, prices, user_favorites>>
  /\ UNCHANGED <<upVars, scVars, pageVars, aiVars, appVars, searches>>

\* list({where, orderBy, limit}): the rows the filter keeps, stably sorted by
\* ascending key (keys[n] is the key of rows[n]), cut at the limit
Rank(keys, i) ==
  1 + Cardinality({k \in DOMAIN keys :
                     \/ keys[k] < keys[i]
                     \/ keys[k] = keys[i] /\ k < i})

OrderBy(rows, keys) ==
  [n \in DOMAIN rows |-> rows[CHOOSE i \in DOMAIN rows : Rank(keys, i) = n]]

Limit(rows, limit) == SubSeq(rows, 1, IF limit < Len(rows) THEN limit ELSE Len(rows))

\* where: { product_id }
OfProduct(table, productId) == SelectSeq(table, LAMBDA r : r.product_id = productId)

\* orderBy: { price: 'asc' }
ByPrice(rows) == OrderBy(rows, [n \in DOMAIN rows |-> rows[n].price])

\* orderBy: { created_at: 'desc' }
NewestFirst(rows) == OrderBy(rows, [n \in DOMAIN rows |-> -rows[n].created_at])

\* the stores table: store[0]?.name || 'Unknown Store'
StoreName(storeId) == IF storeId = "amazon" THEN "Amazon" ELSE "Unknown Store"

\* prices.map(async (price) => ({...price, store_name, ...}))
WithStores(rows) ==
  [n \in DOMAIN rows |->
     [product_id |-> rows[n].product_id, store_id |-> rows[n].store_id,
      price |-> rows[n].price, store_name |-> StoreName(rows[n].store_id)]]

jobVars == <<remaining, pc, req, productIds, idx, productUpdates, updates,
             notifications, errors, sent, returned, seen, response>>

\* ---------------------------------------------------- ai-search handler
\* String.prototype.includes on the lower-case texts of the model
Includes(text, part) ==
  <<text, part>> \in
    {<<"apple iphone", "phone">>, <<"apple iphone", "iphone">>,
     <<"apple iphone", "apple">>, <<"macbook", "macbook">>,
     <<"iphone 15 pro", "phone">>, <<"iphone 15 pro", "iphone">>,
     <<"macbook air m3", "macbook">>,
     <<"airpods pro (2nd generation)", "airpods">>, <<"apple", "apple">>}

\* the entries of productTypes and brands that a text of the model contains,
\* in the order of the arrays
productTypes == <<"phone", "iphone", "laptop", "macbook", "airpods">>
brands == <<"apple", "samsung">>

\* for (const entry of list) if (query.includes(entry)) return entry
FirstIncluded(query, list, otherwise) ==
  IF \E n \in DOMAIN list : Includes(query, list[n])
    THEN list[CHOOSE n \in DOMAIN list :
                /\ Includes(query, list[n])
                /\ \A m \in DOMAIN list : Includes(query, list[m]) => n <= m]
    ELSE otherwise

extractProductType(query) == FirstIncluded(query, productTypes, "general")
extractBrand(query) == FirstIncluded(query, brands, "null")

\* analyzeSearchIntent: the fields findProductMatches reads
analyzeSearchIntent(query) ==
  LET lowerQuery == ToLowerCase(query)
  IN [productType |-> extractProductType(lowerQuery),
      brand |-> extractBrand(lowerQuery)]

mockProducts ==
  <<[id |-> "iphone-15-pro", name |-> "iPhone 15 Pro",
     category |-> "Electronics", brand |-> "Apple"],
    [id |-> "macbook-air-m3", name |-> "MacBook Air M3",
     category |-> "Electronics", brand |-> "Apple"],
    [id |-> "airpods-pro-2", name |-> "AirPods Pro (2nd generation)",
     category |-> "Electronics", brand |-> "Apple"]>>

\* confidences in thousandths; Math.random() * 0.1 lies in [0, 0.1)
BrandMatch == 400
ProductTypeMatch == 300
CategoryMatch == 200
ConfidenceFloor == 100
Randoms == {0, 50, 99}

\* the confidence the map callback computes for a product
Confidence(item, searchIntent, category, random) ==
  (IF searchIntent.brand # "null"
        /\ Includes(ToLowerCase(item.brand), searchIntent.brand)
     THEN BrandMatch ELSE 0)
  + (IF searchIntent.productType # "general"
          /\ Includes(ToLowerCase(item.name), searchIntent.productType)
       THEN ProductTypeMatch ELSE 0)
  + (IF category # "" /\ ToLowerCase(item.category) = ToLowerCase(category)
       THEN CategoryMatch ELSE 0)
  + random

\* A faulty findProductMatches: filtered and cut, not sorted.
findProductMatchesUnsorted(searchIntent, category, maxResults, randoms) ==
  LET matches == [n \in DOMAIN mockProducts |->
                    [id |-> mockProducts[n].id,
                     confidence |-> Confidence(mockProducts[n], searchIntent,
                                               category, randoms[n])]]
  IN Slice(SelectSeq(matches, LAMBDA match : match.confidence > ConfidenceFloor),
           maxResults)

\* findProductMatches: map, filter(confidence > 0.1), sort by descending
\* confidence, slice(0, maxResults)
findProductMatches(searchIntent, category, maxResults, randoms) ==
  LET matches == [n \in DOMAIN mockProducts |->
                    [id |-> mockProducts[n].id,
                     confidence |-> Confidence(mockProducts[n], searchIntent,
                                               category, randoms[n])]]
      filtered == SelectSeq(matches, LAMBDA match : match.confidence > ConfidenceFloor)
      sorted == OrderBy(filtered,
                        [n \in DOMAIN filtered |-> 0 - filtered[n].confidence])
  IN Slice(sorted, maxResults)

AiReturnEarly(request, r) ==
  /\ apc = "idle"
  /\ areq' = request
  /\ aresponse' = r
  /\ apc' = "done"
  /\ UNCHANGED <<upVars, scVars, uiVars>>

\* req.method === 'OPTIONS'
AiPreflight ==
  AiReturnEarly([method |-> "OPTIONS", body |-> "none"],
                [kind |-> "preflight", status |-> 200])

\* A faulty method check: a GET is served like a POST.
AiMethodNotAllowedServed ==
  AiReturnEarly([method |-> "GET", body |-> "none"],
                [kind |-> "matches", status |-> 200, success |-> TRUE,
                 query |-> "", searchIntent |-> analyzeSearchIntent(""),
                 matches |-> <<>>, totalResults |-> 0])

\* req.method !== 'POST'
AiMethodNotAllowed ==
  AiReturnEarly([method |-> "GET", body |-> "none"],
                [kind |-> "error", status |-> 405, error |-> "Method not allowed"])

\* !query
QueryRequired ==
  AiReturnEarly([method |-> "POST", body |-> "missing"],
                [kind |-> "error", status |-> 400,
                 error |-> "Search query is required"])

\* await req.json() rejects, or the analysis raises (a query or category that
\* is not a string): outer catch
AiSearchError ==
  AiReturnEarly([method |-> "POST", body |-> "unreadable"],
                [kind |-> "failure", status |-> 500, success |-> FALSE,
                 error |-> "Failed to perform AI search"])

\* a POST with a query: analyzeSearchIntent, findProductMatches, the response
AiMatch(query, category, maxResults, randoms) ==
  LET searchIntent == analyzeSearchIntent(query)
      matches == findProductMatches(searchIntent, category, maxResults, randoms)
  IN AiReturnEarly([method |-> "POST", body |-> "query", query |-> query,
                    category |-> category, maxResults |-> maxResults],
                   [kind |-> "matches", status |-> 200, success |-> TRUE,
                    query |-> query, searchIntent |-> searchIntent,
                    matches |-> matches, totalResults |-> Len(matches)])

AiClose ==
  /\ apc = "done"
  /\ apc' = "idle"
  /\ areq' = NoRequest
  /\ aresponse' = NoResponse
  /\ UNCHANGED <<upVars, scVars, uiVars>>

\* the texts a request carries as query and as category ("" when absent), and
\* its maxResults: as sent, the default, or the search page's 20
AiQueries == {"Apple iPhone", "macbook", "radio"}
AiCategories == {"", "electronics", "audio"}
AiDefaultMaxResults == 10
SearchPageMaxResults == 20
AiMaxResultsValues ==
  ((-1)..MaxMaxResults) \cup {AiDefaultMaxResults, SearchPageMaxResults}

\* ------------------------------------------------- ProductDetailsPage
\* navigation to /product/:id: the component mounts and loadProductDetails starts
OpenProduct ==
  /\ Mounted("product")
  /\ searches' = <<>>
  /\ UNCHANGED <<toasted, dbVars, upVars, scVars, aiVars>>

\* loadProductDetails settles for an id the products table holds (the chart's
\* priceHistory is left out)
LoadProductDetails(id) ==
  /\ page = "product" /\ inflight
  /\ product' = id
  /\ currentPrices' = WithStores(Limit(ByPrice(OfProduct(prices, id)), PricesLimit))
  /\ loading' = FALSE
  /\ inflight' = FALSE
  /\ UNCHANGED <<page, featuredProducts, products, favorites, productPrices,
                 alertPrice, toasted>>
  /\ UNCHANGED <<dbVars, upVars, scVars, aiVars, appVars, searches>>

\* A faulty loader: the early return leaves without the finally block.
ProductNotFoundStuck ==
  /\ page = "product" /\ inflight
  /\ toasted' = "Product Not Found"
  /\ inflight' = FALSE
  /\ UNCHANGED <<page, loading, featuredProducts, products, favorites,
                 productPrices, product, currentPrices, alertPrice>>
  /\ UNCHANGED <<dbVars, upVars, scVars, aiVars, appVars, searches>>

\* !productData.length: toast, navigate('/'), return; finally setLoading(false)
ProductNotFound ==
  /\ page = "product" /\ inflight
  /\ toasted' = "Product Not Found"
  /\ loading' = FALSE
  /\ inflight' = FALSE
  /\ UNCHANGED <<page, featuredProducts, products, favorites, productPrices,
                 product, currentPrices, alertPrice>>
  /\ UNCHANGED <<dbVars, upVars, scVars, aiVars, appVars, searches>>

\* the navigate('/') of the product-not-found path takes effect: HomePage mounts
NavigatedHome ==
  /\ page = "product" /\ ~inflight
  /\ product = NoProduct /\ toasted = "Product Not Found"
  /\ Mounted("home")
  /\ searches' = <<>>
  /\ UNCHANGED <<toasted, dbVars, upVars, scVars, aiVars>>

\* a list call of loadProductDetails rejects, before or after setProduct
LoadProductDetailsFails(got) ==
  /\ page = "product" /\ inflight
  /\ product' = got
  /\ toasted' = "Error"
  /\ loading' = FALSE
  /\ inflight' = FALSE
  /\ UNCHANGED <<page, featuredProducts, products, favorites, productPrices,
                 currentPrices, alertPrice>>
  /\ UNCHANGED <<dbVars, upVars, scVars, aiVars, appVars, searches>>

\* what the type="number" input hands to onChange: '' or a number's text
AlertPriceTexts == {"", "0", "-5", "50", "100"}

\* parseFloat on these texts; NaN for a text that starts with no number
parseFloat(text) ==
  IF text = "0" THEN [nan |-> FALSE, value |-> 0]
  ELSE IF text = "-5" THEN [nan |-> FALSE, value |-> -5]
  ELSE IF text = "50" THEN [nan |-> FALSE, value |-> 50]
  ELSE IF text = "100" THEN [nan |-> FALSE, value |-> 100]
  ELSE [nan |-> TRUE, value |-> 0]

\* onChange={(e) => setAlertPrice(e.target.value)}
SetAlertPrice(text) ==
  /\ page = "product" /\ ~loading /\ product # NoProduct
  /\ alertPrice' = text
  /\ UNCHANGED <<page, loading, inflight, featuredProducts, products, favorites,
                 productPrices, product, currentPrices, toasted>>
  /\ UNCHANGED <<dbVars, upVars, scVars, aiVars, appVars, searches>>

\* A faulty handler: it stores whatever number the text parses to.
CreateAlertUnchecked(a) ==
  /\ page = "product" /\ ~loading
  /\ product # NoProduct /\ alertPrice # ""
  /\ a \notin {r.id : r \in alerts}
  /\ alerts' = alerts \cup {[id |-> a, user_id |-> "u1", product_id |-> product,
                             target_price |-> parseFloat(alertPrice).value,
                             is_active |-> "1"]}
  /\ fired' = [fired EXCEPT ![a] = 0]
  /\ toasted' = "Price Alert Created"
  /\ alertPrice' = ""
  /\ UNCHANGED <<page, loading, inflight, featuredProducts, products, favorites,
                 productPrices, product, currentPrices>>
  /\ UNCHANGED <<dbVars, jobVars, scVars, aiVars, appVars, searches>>

\* createPriceAlert, from the click on Create Alert: returns at once without a
\* product or a text (no step); else validates, creates the row, clears the text
CreateAlert(a) ==
  /\ page = "product" /\ ~loading
  /\ product # NoProduct /\ alertPrice # ""
  /\ LET targetPrice == parseFloat(alertPrice)
     IN IF targetPrice.nan \/ targetPrice.value <= 0
        THEN /\ toasted' = "Invalid Price"
             /\ UNCHANGED <<alerts, fired, alertPrice>>
        ELSE /\ a \notin {r.id : r \in alerts}
             /\ alerts' = alerts \cup {[id |-> a, user_id |-> "u1",
                                        product_id |-> product,
                                        target_price |-> targetPrice.value,
                                        is_active |-> "1"]}
             /\ fired' = [fired EXCEPT ![a] = 0]
             /\ toasted' = "Price Alert Created"
             /\ alertPrice' = ""
  /\ UNCHANGED <<page, loading, inflight, featuredProducts, products, favorites,
                 productPrices, product, currentPrices>>
  /\ UNCHANGED <<dbVars, jobVars, scVars, aiVars, appVars, searches>>

\* blink.auth.me() or price_alerts.create rejects: catch, toast
CreateAlertFails ==
  /\ page = "product" /\ ~loading
  /\ product # NoProduct /\ alertPrice # ""
  /\ toasted' = "Error"
  /\ UNCHANGED <<page, loading, inflight, featuredProducts, products, favorites,
                 productPrices, product, currentPrices, alertPrice>>
  /\ UNCHANGED <<dbVars, upVars, scVars, aiVars, appVars, searches>>

\* addToFavorites of the product page
AddToFavorites ==
  /\ page = "product" /\ ~loading /\ product # NoProduct
  /\ Rows < MaxRows
  /\ user_favorites' = Append(user_favorites,
                               [id |-> FreshId(user_favorites), user_id |-> "u1",
                                product_id |-> product, created_at |-> clock])
  /\ toasted' = "Added to Favorites"
  /\ UNCHANGED <<clock, prices, price_history>>
  /\ UNCHANGED <<page, loading, inflight, featuredProducts, products, favorites,
                 productPrices, product, currentPrices, alertPrice>>
  /\ UNCHANGED <<upVars, scVars, aiVars, appVars, searches>>

\* user_favorites.create rejects: catch, toast
AddToFavoritesFails ==
  /\ page = "product" /\ ~loading /\ product # NoProduct
  /\ toasted' = "Error"
  /\ UNCHANGED <<page, loading, inflight, featuredProducts, products, favorites,
                 productPrices, product, currentPrices, alertPrice>>
  /\ UNCHANGED <<dbVars, upVars, scVars, aiVars, appVars, searches>>

\* the products table, oldest first
ProductsTable == <<[id |-> "p1", created_at |-> 0], [id |-> "p2", created_at |-> 0]>>

Ids(rows) == [n \in DOMAIN rows |-> rows[n].id]
Range(seq) == {seq[n] : n \in DOMAIN seq}

\* ------------------------------------------------------------ HomePage
OpenHome ==
  /\ Mounted("home")
  /\ searches' = <<>>
  /\ UNCHANGED <<toasted, dbVars, upVars, scVars, aiVars>>

Featured == Ids(Limit(NewestFirst(ProductsTable), FeaturedLimit))

\* loadFeaturedProducts settles
LoadFeaturedProducts ==
  /\ page = "home" /\ inflight
  /\ featuredProducts' = Featured
  /\ productPrices' =
       [p \in Range(Featured) |->
          WithStores(Limit(NewestFirst(OfProduct(prices, p)), PricesLimit))]
  /\ loading' = FALSE
  /\ inflight' = FALSE
  /\ UNCHANGED <<page, products, favorites, product, currentPrices, alertPrice,
                 toasted>>
  /\ UNCHANGED <<dbVars, upVars, scVars, aiVars, appVars, searches>>

\* a list call of loadFeaturedProducts rejects, before or after
\* setFeaturedProducts: catch logs, finally clears loading
LoadFeaturedProductsFails(listed) ==
  /\ page = "home" /\ inflight
  /\ featuredProducts' = IF listed THEN Featured ELSE featuredProducts
  /\ loading' = FALSE
  /\ inflight' = FALSE
  /\ UNCHANGED <<page, products, favorites, productPrices, product, currentPrices,
                 alertPrice, toasted>>
  /\ UNCHANGED <<dbVars, upVars, scVars, aiVars, appVars, searches>>

\* --------------------------------------------------- SearchResultsPage
\* The q parameter: absent, or a text (the category parameter is left absent).
Queries == {"", "phone"}

\* the products whose name, description or brand contains the text
Containing(query) == IF query = "phone" THEN {"p2"} ELSE {}

\* What the fetch of the ai-search function gives the page: the request raises,
\* the response is not ok, or a body with success and matches. A match names a
\* catalog product or an id the products table does not hold.
MatchIds == Products \cup {"p9"}
Confidences == {20, 90}
AiMatches ==
  {m \in SeqsUpTo([id : MatchIds, confidence : Confidences], MaxMatches) :
     \A i, k \in DOMAIN m : i # k => m[i].id # m[k].id}
AiOutcomes ==
  {[kind |-> k, matches |-> <<>>] : k \in {"raised", "notOk", "unsuccessful"}}
    \cup {[kind |-> "matches", matches |-> m] : m \in AiMatches}

\* new Map(aiResults.matches.map(m => [m.id, m.confidence])).get(id) || 0
confidenceMap(matches, id) ==
  IF \E i \in DOMAIN matches : matches[i].id = id
    THEN matches[CHOOSE i \in DOMAIN matches :
                   /\ matches[i].id = id
                   /\ \A k \in DOMAIN matches : matches[k].id = id => k <= i].confidence
    ELSE 0

\* A faulty AI branch: the rows as products.list returned them, not sorted.
AiProductDataUnsorted(matches) ==
  LET matchedIds == {matches[i].id : i \in DOMAIN matches}
  IN Ids(Limit(SelectSeq(ProductsTable, LAMBDA r : r.id \in matchedIds),
               SearchLimit))

\* products.list({where: {id: {in: productIds}}, limit: 50}), then
\* productData.sort by descending confidence
AiProductData(matches) ==
  LET matchedIds == {matches[i].id : i \in DOMAIN matches}
      listed == Limit(SelectSeq(ProductsTable, LAMBDA r : r.id \in matchedIds),
                      SearchLimit)
  IN Ids(OrderBy(listed,
                 [n \in DOMAIN listed |-> 0 - confidenceMap(matches, listed[n].id)]))

\* the fallback: products.list({where, orderBy: {created_at: 'desc'}, limit: 50})
BasicProductData(query) ==
  Ids(Limit(NewestFirst(SelectSeq(ProductsTable,
                                  LAMBDA r : query = "" \/ r.id \in Containing(query))),
            SearchLimit))

\* a call of performSearch up to its first await: the ai-search fetch if (query),
\* the basic products.list otherwise. outcome: how the ai-search request ended;
\* confidence: the confidences of the products the AI branch arrived at;
\* basic: the basic products.list was issued.
Started(query) ==
  [query |-> query,
   at |-> IF query # "" THEN "ai" ELSE "basic",
   outcome |-> IF query # "" THEN "pending" ELSE "skipped",
   confidence |-> <<>>,
   basic |-> query = "",
   productData |-> <<>>]

Settled(calls) == \A k \in DOMAIN calls : calls[k].at = "done"

\* navigation to /search?q=...: the component mounts, the effect runs performSearch
OpenSearch(query) ==
  /\ Mounted("search")
  /\ searches' = <<Started(query)>>
  /\ UNCHANGED <<toasted, dbVars, upVars, scVars, aiVars>>

\* The dependency arrays of the effects of SearchResultsPage, FavoritesPage and
\* ProductDetailsPage read performSearch, loadFavorites and loadProductDetails
\* above their const declarations: where the build keeps const, rendering such
\* a page throws and React unmounts the tree.
RenderThrows ==
  /\ Authenticated
  /\ page' = "none"
  /\ inflight' = FALSE
  /\ searches' = <<>>
  /\ UNCHANGED <<loading, featuredProducts, products, favorites, productPrices,
                 product, currentPrices, alertPrice, toasted>>
  /\ UNCHANGED <<dbVars, upVars, scVars, aiVars, appVars>>

\* searchParams change: the effect runs performSearch again, whatever the
\* calls before it are waiting for
SearchAgain(query) ==
  /\ page = "search"
  /\ Len(searches) < MaxSearches
  /\ searches' = Append(searches, Started(query))
  /\ loading' = TRUE
  /\ inflight' = TRUE
  /\ UNCHANGED <<page, featuredProducts, products, favorites, productPrices,
                 product, currentPrices, alertPrice, toasted>>
  /\ UNCHANGED <<dbVars, upVars, scVars, aiVars, appVars>>

\* The AI branch of call c settles (lines 82-112). With products found the call
\* goes on to setProducts and the first prices.list; otherwise (the fetch, the
\* json or the products.list raised, !ok, !success, no matches, no row) it issues
\* the basic products.list.
AiSearch(c, outcome) ==
  /\ page = "search"
  /\ c \in DOMAIN searches /\ searches[c].at = "ai"
  /\ LET productData == IF outcome.kind = "matches" /\ outcome.matches # <<>>
                          THEN AiProductData(outcome.matches) ELSE <<>>
     IN IF productData # <<>>
          THEN /\ searches' =
                    [searches EXCEPT
                       ![c].at = "prices",
                       ![c].outcome = outcome.kind,
                       ![c].confidence =
                          [n \in DOMAIN productData |->
                             confidenceMap(outcome.matches, productData[n])],
                       ![c].productData = productData]
               /\ products' = productData
          ELSE /\ searches' = [searches EXCEPT ![c].at = "basic",
                                               ![c].outcome = outcome.kind,
                                               ![c].basic = TRUE]
               /\ UNCHANGED products
  /\ UNCHANGED <<page, loading, inflight, featuredProducts, favorites,
                 productPrices, product, currentPrices, alertPrice, toasted>>
  /\ UNCHANGED <<dbVars, upVars, scVars, aiVars, appVars>>

\* the basic products.list of call c returns: setProducts, first prices.list
BasicSearch(c) ==
  /\ page = "search"
  /\ c \in DOMAIN searches /\ searches[c].at = "basic"
  /\ LET productData == BasicProductData(searches[c].query)
     IN /\ searches' = [searches EXCEPT ![c].at = "prices",
                                        ![c].productData = productData]
        /\ products' = productData
  /\ UNCHANGED <<page, loading, inflight, featuredProducts, favorites,
                 productPrices, product, currentPrices, alertPrice, toasted>>
  /\ UNCHANGED <<dbVars, upVars, scVars, aiVars, appVars>>

\* performSearch settles: the prices of call c's products are in,
\* setProductPrices, finally setLoading(false)
PerformSearch(c) ==
  /\ page = "search"
  /\ c \in DOMAIN searches /\ searches[c].at = "prices"
  /\ productPrices' =
       [p \in Range(searches[c].productData) |->
          WithStores(Limit(ByPrice(OfProduct(prices, p)), PricesLimit))]
  /\ searches' = [searches EXCEPT ![c].at = "done"]
  /\ loading' = FALSE
  /\ inflight' = ~Settled(searches')
  /\ UNCHANGED <<page, featuredProducts, products, favorites, product,
                 currentPrices, alertPrice, toasted>>
  /\ UNCHANGED <<dbVars, upVars, scVars, aiVars, appVars>>

\* the basic products.list or a prices.list of call c rejects: catch, toast,
\* finally setLoading(false)
PerformSearchFails(c) ==
  /\ page = "search"
  /\ c \in DOMAIN searches /\ searches[c].at \in {"basic", "prices"}
  /\ searches' = [searches EXCEPT ![c].at = "done"]
  /\ toasted' = "Search Error"
  /\ loading' = FALSE
  /\ inflight' = ~Settled(searches')
  /\ UNCHANGED <<page, featuredProducts, products, favorites, productPrices,
                 product, currentPrices, alertPrice>>
  /\ UNCHANGED <<dbVars, upVars, scVars, aiVars, appVars>>

\* addToFavorites(productId) of a product card
SearchAddToFavorites(productId) ==
  /\ page = "search" /\ ~loading
  /\ productId \in Range(products)
  /\ Rows < MaxRows
  /\ user_favorites' = Append(user_favorites,
                               [id |-> FreshId(user_favorites), user_id |-> "u1",
                                product_id |-> productId, created_at |-> clock])
  /\ toasted' = "Added to Favorites"
  /\ UNCHANGED <<clock, prices, price_history>>
  /\ UNCHANGED <<page, loading, inflight, featuredProducts, products, favorites,
                 productPrices, product, currentPrices, alertPrice>>
  /\ UNCHANGED <<upVars, scVars, aiVars, appVars, searches>>

\* user_favorites.create rejects: catch, toast
SearchAddToFavoritesFails ==
  /\ page = "search" /\ ~loading /\ products # <<>>
  /\ toasted' = "Error"
  /\ UNCHANGED <<page, loading, inflight, featuredProducts, products, favorites,
                 productPrices, product, currentPrices, alertPrice>>
  /\ UNCHANGED <<dbVars, upVars, scVars, aiVars, appVars, searches>>

\* -------------------------------------------------------- FavoritesPage
OpenFavorites ==
  /\ Mounted("favorites")
  /\ searches' = <<>>
  /\ UNCHANGED <<toasted, dbVars, upVars, scVars, aiVars>>

\* favoritesData, newest first, each with the rows products.list gave for it
FavoritesWithProducts ==
  LET favoritesData == NewestFirst(SelectSeq(user_favorites,
                                             LAMBDA r : r.user_id = "u1"))
  IN [n \in DOMAIN favoritesData |->
        [id |-> favoritesData[n].id, user_id |-> favoritesData[n].user_id,
         product_id |-> favoritesData[n].product_id,
         created_at |-> favoritesData[n].created_at,
         product |-> Limit(SelectSeq(ProductsTable,
                                     LAMBDA r : r.id = favoritesData[n].product_id),
                           1)]]

\* without the favorites whose product no longer exists
ValidFavorites == SelectSeq(FavoritesWithProducts, LAMBDA fav : fav.product # <<>>)

FavoriteProducts == [n \in DOMAIN ValidFavorites |-> ValidFavorites[n].product_id]

\* where: { product_id, scraped_at: { gte: Date.now() - 24 h } }
RecentHistory(productId) ==
  SelectSeq(price_history, LAMBDA r : /\ r.product_id = productId
                                      /\ r.scraped_at >= clock - HistoryWindow)

\* loadFavorites settles
LoadFavorites ==
  /\ page = "favorites" /\ inflight
  /\ favorites' = ValidFavorites
  /\ productPrices' =
       [p \in Range(FavoriteProducts) |->
          WithStores(Limit(ByPrice(RecentHistory(p)), HistoryLimit))]
  /\ loading' = FALSE
  /\ inflight' = FALSE
  /\ UNCHANGED <<page, featuredProducts, products, product, currentPrices,
                 alertPrice, toasted>>
  /\ UNCHANGED <<dbVars, upVars, scVars, aiVars, appVars, searches>>

\* a call of loadFavorites rejects, before or after setFavorites
LoadFavoritesFails(listed) ==
  /\ page = "favorites" /\ inflight
  /\ favorites' = IF listed THEN ValidFavorites ELSE favorites
  /\ toasted' = "Error"
  /\ loading' = FALSE
  /\ inflight' = FALSE
  /\ UNCHANGED <<page, featuredProducts, products, productPrices, product,
                 currentPrices, alertPrice>>
  /\ UNCHANGED <<dbVars, upVars, scVars, aiVars, appVars, searches>>

\* A faulty removeFavorite: the list is filtered although the delete rejected.
RemoveFavoriteFailsOptimistic(favoriteId) ==
  /\ page = "favorites" /\ ~loading
  /\ \E n \in DOMAIN favorites : favorites[n].id = favoriteId
  /\ favorites' = SelectSeq(favorites, LAMBDA fav : fav.id # favoriteId)
  /\ toasted' = "Error"
  /\ UNCHANGED <<page, loading, inflight, featuredProducts, products,
                 productPrices, product, currentPrices, alertPrice>>
  /\ UNCHANGED <<dbVars, upVars, scVars, aiVars, appVars, searches>>

\* removeFavorite(favorite.id) of a card: the delete resolves, the list is
\* filtered, toast
RemoveFavorite(favoriteId) ==
  /\ page = "favorites" /\ ~loading
  /\ \E n \in DOMAIN favorites : favorites[n].id = favoriteId
  /\ user_favorites' = SelectSeq(user_favorites, LAMBDA r : r.id # favoriteId)
  /\ favorites' = SelectSeq(favorites, LAMBDA fav : fav.id # favoriteId)
  /\ toasted' = "Removed from Favorites"
  /\ UNCHANGED <<clock, prices, price_history>>
  /\ UNCHANGED <<page, loading, inflight, featuredProducts, products,
                 productPrices, product, currentPrices, alertPrice>>
  /\ UNCHANGED <<upVars, scVars, aiVars, appVars, searches>>

\* user_favorites.delete rejects: catch, toast
RemoveFavoriteFails(favoriteId) ==
  /\ page = "favorites" /\ ~loading
  /\ \E n \in DOMAIN favorites : favorites[n].id = favoriteId
  /\ toasted' = "Error"
  /\ UNCHANGED <<page, loading, inflight, featuredProducts, products, favorites,
                 productPrices, product, currentPrices, alertPrice>>
  /\ UNCHANGED <<dbVars, upVars, scVars, aiVars, appVars, searches>>

\* -------------------------------------------------------- specifications
vars == <<upVars, scVars, uiVars, aiVars>>
Init == UpInit /\ ScInit /\ UiInit /\ AiInit

\* One update-prices handler serving requests one after the other.
Next ==
  \/ \E ids \in Batches(Products, MaxBatch) : Submit(1, ids)
  \/ \E draw \in Draws(JobChangingStores) : UpdateProductPrices(1, draw)
  \/ EarlyReturn(1)
  \/ JobStep(1)

Spec == Init /\ [][Next]_vars

\* Overlapping update-prices requests, with price_alerts rows on the products.
AlertNext ==
  \/ \E a \in AlertIds, p \in Products, t \in TargetPrices : CreatePriceAlert(a, p, t)
  \/ \E j \in Handlers, ids \in Batches(Products, MaxAlertBatch) : SubmitCounted(j, ids)
  \/ \E j \in Handlers, draw \in Draws(AlertChangingStores) : UpdateProductPrices(j, draw)
  \/ \E j \in Handlers : JobStep(j)

AlertSpec == Init /\ [][AlertNext]_vars

\* One update-prices handler, with price_alerts rows on the products.
WatchNext ==
  \/ \E a \in AlertIds, p \in Products, t \in TargetPrices : CreatePriceAlert(a, p, t)
  \/ \E ids \in Batches(Products, MaxAlertBatch) : SubmitCounted(1, ids)
  \/ \E draw \in Draws(JobChangingStores) : UpdateProductPrices(1, draw)
  \/ JobStep(1)

WatchSpec == Init /\ [][WatchNext]_vars

\* The scrape handler serving requests one after the other.
ScrapeNext ==
  \/ ScrapePreflight
  \/ ScrapeMethodNotAllowed
  \/ ProductNameRequired
  \/ ScrapeError
  \/ \E storeList \in StoreLists, m \in MaxResultsValues : ScrapeAccept(storeList, m)
  \/ \E price \in MockPrices : ScrapeStore(price)
  \/ ScrapeStoreRaises
  \/ ScrapeRespond
  \/ ScrapeClose

ScrapeSpec == Init /\ [][ScrapeNext]_vars

\* The ai-search handler serving requests one after the other.
AiNext ==
  \/ AiPreflight
  \/ AiMethodNotAllowed
  \/ QueryRequired
  \/ AiSearchError
  \/ \E query \in AiQueries, category \in AiCategories,
        maxResults \in AiMaxResultsValues,
        randoms \in [DOMAIN mockProducts -> Randoms] :
          AiMatch(query, category, maxResults, randoms)
  \/ AiClose

AiSpec == Init /\ [][AiNext]_vars

\* The three handlers side by side, each serving its rejected requests and one
\* accepted request.
ServeNext ==
  \/ EarlyReturn(1)
  \/ Submit(1, <<"p1">>)
  \/ \E draw \in Draws(JobChangingStores) : UpdateProductPrices(1, draw)
  \/ JobStep(1)
  \/ ScrapePreflight
  \/ ScrapeMethodNotAllowed
  \/ ProductNameRequired
  \/ ScrapeError
  \/ ScrapeAccept(<<"amazon">>, DefaultMaxResults)
  \/ \E price \in MockPrices : ScrapeStore(price)
  \/ ScrapeStoreRaises
  \/ ScrapeRespond
  \/ ScrapeClose
  \/ AiPreflight
  \/ AiMethodNotAllowed
  \/ QueryRequired
  \/ AiSearchError
  \/ AiMatch("macbook", "", AiDefaultMaxResults, [n \in DOMAIN mockProducts |-> 0])
  \/ AiClose

ServeSpec == Init /\ [][ServeNext]_vars

\* The signed-in user moving between the home, search and favorites pages
\* while the tables fill.
PageNext ==
  \/ SignedIn
  \/ Tick
  \/ \E p \in Products, price \in PriceValues : WritePrice(p, price)
  \/ \E p \in Products, price \in PriceValues : WriteHistory(p, price)
  \/ OpenHome
  \/ LoadFeaturedProducts
  \/ \E listed \in BOOLEAN : LoadFeaturedProductsFails(listed)
  \/ OpenSearch("")
  \/ BasicSearch(1)
  \/ PerformSearch(1)
  \/ PerformSearchFails(1)
  \/ \E p \in Products : SearchAddToFavorites(p)
  \/ SearchAddToFavoritesFails
  \/ OpenFavorites
  \/ LoadFavorites
  \/ \E listed \in BOOLEAN : LoadFavoritesFails(listed)

PageSpec == Init /\ [][PageNext]_vars

\* The signed-in user on the search page, one search per visit.
SearchNext ==
  \/ SignedIn
  \/ \E p \in Products : WritePrice(p, 100)
  \/ \E query \in Queries : OpenSearch(query)
  \/ RenderThrows
  \/ \E outcome \in AiOutcomes : AiSearch(1, outcome)
  \/ BasicSearch(1)
  \/ PerformSearch(1)
  \/ PerformSearchFails(1)

SearchSpec == Init /\ [][SearchNext]_vars

\* The signed-in user moving between the pages, the search parameters changing
\* while searches are in flight and the ai-search responses carrying at most
\* one match; the tables are as first deployed.
SearchCalls == 1..MaxSearches
ShortAiOutcomes == {outcome \in AiOutcomes : Len(outcome.matches) <= 1}

LoadNext ==
  \/ SignedIn
  \/ OpenHome
  \/ LoadFeaturedProducts
  \/ \E listed \in BOOLEAN : LoadFeaturedProductsFails(listed)
  \/ OpenFavorites
  \/ LoadFavorites
  \/ \E listed \in BOOLEAN : LoadFavoritesFails(listed)
  \/ OpenProduct
  \/ \E id \in Products : LoadProductDetails(id)
  \/ ProductNotFound
  \/ NavigatedHome
  \/ \E got \in Products \cup {NoProduct} : LoadProductDetailsFails(got)
  \/ \E query \in Queries : OpenSearch(query)
  \/ RenderThrows
  \/ \E query \in Queries : SearchAgain(query)
  \/ \E c \in SearchCalls, outcome \in ShortAiOutcomes : AiSearch(c, outcome)
  \/ \E c \in SearchCalls : BasicSearch(c)
  \/ \E c \in SearchCalls : PerformSearch(c)
  \/ \E c \in SearchCalls : PerformSearchFails(c)

LoadSpec == Init /\ [][LoadNext]_vars

\* The signed-in user adding favorites from the search page and removing them
\* on the favorites page, while price_history fills.
FavoriteIds == 1..MaxRows

FavoritesNext ==
  \/ SignedIn
  \/ \E p \in Products : WriteHistory(p, 100)
  \/ OpenSearch("")
  \/ BasicSearch(1)
  \/ PerformSearch(1)
  \/ PerformSearchFails(1)
  \/ \E p \in Products : SearchAddToFavorites(p)
  \/ SearchAddToFavoritesFails
  \/ OpenFavorites
  \/ LoadFavorites
  \/ \E listed \in BOOLEAN : LoadFavoritesFails(listed)
  \/ \E id \in FavoriteIds : RemoveFavorite(id)
  \/ \E id \in FavoriteIds : RemoveFavoriteFails(id)

FavoritesSpec == Init /\ [][FavoritesNext]_vars

\* The auth state changing while the user moves between the pages, one search
\* per visit of the search page.
AppNext ==
  \/ \E stateUser \in {NoUser, "u1"}, isLoading \in BOOLEAN :
        AuthStateChanged(stateUser, isLoading)
  \/ OpenHome
  \/ LoadFeaturedProducts
  \/ \E listed \in BOOLEAN : LoadFeaturedProductsFails(listed)
  \/ OpenFavorites
  \/ LoadFavorites
  \/ \E listed \in BOOLEAN : LoadFavoritesFails(listed)
  \/ OpenProduct
  \/ \E id \in Products : LoadProductDetails(id)
  \/ ProductNotFound
  \/ NavigatedHome
  \/ \E got \in Products \cup {NoProduct} : LoadProductDetailsFails(got)
  \/ \E query \in Queries : OpenSearch(query)
  \/ RenderThrows
  \/ \E outcome \in ShortAiOutcomes : AiSearch(1, outcome)
  \/ BasicSearch(1)
  \/ PerformSearch(1)
  \/ PerformSearchFails(1)

AppSpec == Init /\ [][AppNext]_vars

\* The signed-in user on the product page.
ProductNext ==
  \/ SignedIn
  \/ \E p \in Products : WritePrice(p, 100)
  \/ OpenProduct
  \/ \E id \in Products : LoadProductDetails(id)
  \/ ProductNotFound
  \/ NavigatedHome
  \/ \E got \in Products \cup {NoProduct} : LoadProductDetailsFails(got)
  \/ \E text \in AlertPriceTexts : SetAlertPrice(text)
  \/ \E a \in AlertIds : CreateAlert(a)
  \/ CreateAlertFails
  \/ AddToFavorites
  \/ AddToFavoritesFails

ProductSpec == Init /\ [][ProductNext]_vars

\* ---------------------------------------------------------------- claims
\* the job's alert check is over: the loop has ended
Matched(j) == LoopOver(j) \/ pc[j] \in {"respond", "done"}

Answered(j) == pc[j] = "done" /\ response[j].kind = "summary"

UpdatesOf(j, productId) == SelectSeq(updates[j], LAMBDA u : u.productId = productId)
IntentsOf(j, productId) == SelectSeq(notifications[j], LAMBDA n : n.productId = productId)

\* the lowest new price of a non-empty sequence of updates
MinPrice(ups) ==
  CHOOSE m \in {ups[i].newPrice : i \in DOMAIN ups} :
    \A i \in DOMAIN ups : m <= ups[i].newPrice

\* the first store, in input order, at the lowest new price
FirstStoreAtMin(ups) ==
  LET i == CHOOSE k \in DOMAIN ups :
             /\ ups[k].newPrice = MinPrice(ups)
             /\ \A h \in 1..(k - 1) : ups[h].newPrice # MinPrice(ups)
  IN ups[i].storeId

Qualifies(ups, alert) == ups # <<>> /\ MinPrice(ups) <= alert.target_price

RECURSIVE TotalIntents(_)
TotalIntents(n) == IF n = 0 THEN 0 ELSE Len(notifications[n]) + TotalIntents(n - 1)

RECURSIVE ConcatUps(_)
ConcatUps(log) == IF log = <<>> THEN <<>> ELSE Head(log).ups \o ConcatUps(Tail(log))

RECURSIVE ConcatQuotes(_)
ConcatQuotes(log) == IF log = <<>> THEN <<>> ELSE Head(log).quotes \o ConcatQuotes(Tail(log))

Logged(j) == {errors[j][k] : k \in DOMAIN errors[j]}
ReturnedAt(j) == {returned[j][k].pos : k \in DOMAIN returned[j]}

\* C1: over any sequence of refresh jobs an alert fires at most once per
\* activation: after one alert check has created a notification for the alert's
\* product, no later check creates another one for it.
C1_FiresAtMostOnce == \A r \in alerts : fired[r.id] <= 1

\* C2: when every one of the overlapping update-prices runs has matched the same
\* alert against a qualifying price (lowest new price at or below the target),
\* the runs hold exactly one notification in total.
C2_ExactlyOneIntent ==
  \A r \in alerts :
    (\A j \in Handlers :
        Matched(j) /\ r \in seen[j] /\ Qualifies(UpdatesOf(j, r.product_id), r))
    => TotalIntents(NumHandlers) = 1

\* C3: for every alert present on a product when a job checked it, the job holds
\* exactly one notification for that product when the lowest new price among the
\* product's updates is at or below the alert's target price, and none otherwise.
C3_OneIntentIffAtOrBelowTarget ==
  \A j \in Handlers : \A r \in seen[j] :
    Matched(j) =>
      Len(IntentsOf(j, r.product_id)) =
        (IF Qualifies(UpdatesOf(j, r.product_id), r) THEN 1 ELSE 0)

\* C4: every notification names the store with the lowest new price among its
\* product's updates (the first such store in input order) and carries that
\* lowest price.
C4_IntentAtMinimum ==
  \A j \in Handlers : \A k \in DOMAIN notifications[j] :
    LET n == notifications[j][k]
        ups == UpdatesOf(j, n.productId)
    IN /\ n.newPrice = MinPrice(ups)
       /\ n.storeId = FirstStoreAtMin(ups)

\* C5: a failure while processing one product does not abort the batch: when
\* the loop has ended every product of the request was attempted (it either
\* returned its updates or was logged by the per-product catch), and the summary
\* carries the updates of every product that returned, in order.
C5_PartialFailureContained ==
  \A j \in Handlers :
    /\ Matched(j) /\ req[j].body = "array"
         => \A i \in 1..Len(productIds[j]) : i \in Logged(j) \/ i \in ReturnedAt(j)
    /\ Answered(j) => response[j].updates = ConcatUps(returned[j])

\* C5 witness: a two-product job whose first product failed is answered with
\* the second product's updates.
C5_Witness ==
  \E j \in Handlers :
    /\ Answered(j)
    /\ Len(productIds[j]) = 2
    /\ errors[j] = <<1>>
    /\ ReturnedAt(j) = {2}
    /\ response[j].updates # <<>>

\* a product succeeded: it was not logged as failed and returned a quote
Succeeded(j, i) ==
  /\ i \notin Logged(j)
  /\ \E k \in DOMAIN returned[j] : returned[j][k].pos = i /\ returned[j][k].ups # <<>>

\* C6: the summary counts as updated only the products that succeeded; a product
\* that failed or returned no quote is not counted.
C6_CountsFailedSeparately ==
  \A j \in Handlers :
    Answered(j) =>
      response[j].updatedProducts =
        Cardinality({i \in 1..Len(productIds[j]) : Succeeded(j, i)})

\* C7: a failure of the notification dispatch does not fail the job: every
\* accepted request is answered with the summary carrying the updates produced.
C7_DispatchFailureKeepsSummary ==
  \A j \in Handlers :
    pc[j] = "done" /\ req[j].body = "array"
      => response[j].kind = "summary" /\ response[j].updates = updates[j]

NothingProcessed(j) ==
  /\ returned[j] = <<>> /\ errors[j] = <<>>
  /\ updates[j] = <<>> /\ notifications[j] = <<>> /\ sent[j] = <<>>

\* C8 as stated: a POST whose product id list is missing, not an array or empty
\* is answered with an error, processes no product and sends no notification.
C8_MalformedIsError ==
  \A j \in Handlers :
    /\ pc[j] = "done"
    /\ \/ req[j].body \in {"missing", "notArray"}
       \/ req[j].body = "array" /\ productIds[j] = <<>>
    => /\ response[j].kind = "error"
       /\ NothingProcessed(j)

\* C8 amended: a missing or non-array product id list is answered with the 400
\* error; an empty list is answered with the success summary, all counts zero;
\* in both cases no product is processed and no notification is sent.
C8_MalformedOrEmpty ==
  \A j \in Handlers :
    pc[j] = "done" =>
      /\ req[j].body \in {"missing", "notArray"}
           => /\ response[j].kind = "error" /\ response[j].status = 400
              /\ NothingProcessed(j)
      /\ req[j].body = "array" /\ productIds[j] = <<>>
           => /\ response[j] = Summary(<<>>, <<>>, <<>>)
              /\ NothingProcessed(j)

\* C8 witness: a request with an empty product id list has been answered.
C8_Witness ==
  \E j \in Handlers :
    /\ pc[j] = "done" /\ req[j].body = "array" /\ productIds[j] = <<>>
    /\ response[j].kind = "summary" /\ response[j].updatedProducts = 0

ScrapedAt == {scraped[k].pos : k \in DOMAIN scraped}

\* C9: a store whose scrape raises contributes no quote and never fails the
\* request: an accepted request is answered with success and exactly the quotes
\* of the stores that returned, in order, and no position of the stores array is
\* attempted more than once.
C9_FailedStoreContributesNothing ==
  /\ \A i \in DOMAIN attempts : attempts[i] <= 1
  /\ spc = "done" /\ sidx >= 1
       => /\ sresponse.kind = "scraped" /\ sresponse.success
          /\ sresponse.results = ConcatQuotes(scraped)
          /\ \A i \in DOMAIN attempts : attempts[i] = 1

\* C9 witness: a two-store request whose first store raised is answered with
\* the second store's quote.
C9_Witness ==
  /\ spc = "done" /\ Len(sstores) = 2
  /\ ScrapedAt = {2}
  /\ sresponse.kind = "scraped" /\ Len(sresponse.results) = 1

\* C10: every quote returned during a refresh is written, changed or not: the
\* summary's number of price updates is one per store for every product whose
\* refresh returned.
C10_EveryQuoteWritten ==
  \A j \in Handlers :
    Answered(j) => response[j].priceUpdates = Len(stores) * Len(returned[j])

\* C11: an alert on a product for which the job holds no update produces no
\* notification and is still an active row: for every alert row present when
\* its product was checked, an empty update list of that product means no
\* notification of that product, and the row is still there with is_active "1".
C11_NoQuoteNoIntent ==
  \A j \in Handlers : \A r \in seen[j] :
    UpdatesOf(j, r.product_id) = <<>>
      => /\ IntentsOf(j, r.product_id) = <<>>
         /\ r \in alerts /\ r.is_active = "1"

\* C11 witness: a job checked a product carrying an alert, the refresh had
\* returned no update, and the job ended without a notification.
C11_Witness ==
  \E j \in Handlers : \E r \in seen[j] :
    /\ Matched(j)
    /\ \E k \in DOMAIN returned[j] :
         productIds[j][returned[j][k].pos] = r.product_id /\ returned[j][k].ups = <<>>
    /\ UpdatesOf(j, r.product_id) = <<>>
    /\ notifications[j] = <<>>
    /\ r \in alerts

\* C12: the alert check is idempotent on an alert that has fired: once a check
\* has created a notification for the alert's product, a later check of that
\* product adds no notification, whatever updates it is given.
C12_FiredAlertStaysSilent ==
  [][\A j \in Handlers : \A r \in alerts :
       (pc[j] = "check" /\ productIds[j][idx[j]] = r.product_id /\ fired[r.id] >= 1)
         => notifications'[j] = notifications[j]]_vars

\* the fields of a PriceUpdate
Fields(update) == DOMAIN update

\* C13: the handler keeps no snapshot of earlier quotes, so every update it
\* reports is for a (product, store) pair without a prior snapshot: such an update
\* is classified "new" and carries no old price (null, not a number).
C13_FirstQuoteIsNew ==
  \A j \in Handlers : \A k \in DOMAIN updates[j] :
    LET u == updates[j][k]
    IN /\ u.oldPrice \notin Int
       /\ "classification" \in Fields(u)
       /\ u.classification = "new"

\* the classification the sign of a delta calls for
BySign(delta) ==
  IF delta = 0 THEN "unchanged" ELSE IF delta < 0 THEN "decrease" ELSE "increase"

\* C14: every update with an old price has change = newPrice - oldPrice and a
\* classification that agrees with the sign of the change.
C14_ClassifiedBySign ==
  \A j \in Handlers : \A k \in DOMAIN updates[j] :
    LET u == updates[j][k]
    IN u.oldPrice \in Int
         => /\ u.change = u.newPrice - u.oldPrice
            /\ "classification" \in Fields(u)
            /\ u.classification = BySign(u.change)

\* the notifications of the products whose refresh and alert check both
\* returned, in the order the products were processed
RECURSIVE Collected(_, _)
Collected(j, log) ==
  IF log = <<>> THEN <<>>
  ELSE (IF Head(log).pos \in Logged(j) THEN <<>>
        ELSE checkPriceAlerts(productIds[j][Head(log).pos], Head(log).ups))
       \o Collected(j, Tail(log))

\* C15: the dispatcher is called at most once per job, only when every product
\* of the request has been processed, and with the notifications of all the
\* products of the job as one batch.
C15_OneBatchAfterLoop ==
  \A j \in Handlers :
    /\ Len(sent[j]) <= 1
    /\ sent[j] # <<>>
         => /\ idx[j] > Len(productIds[j])
            /\ \A i \in 1..Len(productIds[j]) : i \in Logged(j) \/ i \in ReturnedAt(j)
            /\ sent[j][1] = notifications[j]
            /\ sent[j][1] = Collected(j, returned[j])

\* C15 witness: a two-product job whose products both dropped handed both
\* notifications to the dispatcher in its one call.
C15_Witness ==
  \E j \in Handlers :
    /\ Len(sent[j]) = 1
    /\ Len(sent[j][1]) = 2
    /\ sent[j][1][1].productId # sent[j][1][2].productId

\* The phase of the job a handler is in, as a rank: 0 Pending (no request),
\* 1 Fetching (about to refresh a product), 2 Reconciling (about to match the
\* refreshed product's alerts), 3 Notifying (the loop is over: dispatch, then
\* the summary is built), 4 Completed (the Response is returned).
PhaseRank(j) ==
  IF pc[j] = "idle" THEN 0
  ELSE IF InLoop(j) THEN 1
  ELSE IF pc[j] = "check" THEN 2
  ELSE IF LoopOver(j) \/ pc[j] = "respond" THEN 3
  ELSE 4

\* a step that starts the next request of a handler
NextRequest(j) == PhaseRank(j) = 4 /\ PhaseRank(j)' = 0

\* the summary is returned only by a completed job
SummaryOnlyCompleted(j) == response[j].kind = "summary" => pc[j] = "done"

ListedIds ==
  IF page = "home" THEN featuredProducts
  ELSE IF page = "search" THEN products
  ELSE IF page = "favorites" THEN [n \in DOMAIN favorites |-> favorites[n].product_id]
  ELSE <<>>

\* the table the mounted page reads its prices from
PriceTable == IF page = "favorites" THEN price_history ELSE prices

HasPriceRecord(p) == \E n \in DOMAIN PriceTable : PriceTable[n].product_id = p

\* the mounted page's loader settles without a rejected call
LoadSettles ==
  \/ LoadFeaturedProducts
  \/ \E c \in SearchCalls : PerformSearch(c)
  \/ LoadFavorites

\* C18: the pages can always show the last known price: when a page's loader
\* settles, every product it lists that has at least one row in the table the
\* page reads is given a non-empty price list.
C18_LastKnownPriceShown ==
  [][LoadSettles => \A p \in Range(ListedIds') :
                      HasPriceRecord(p) => productPrices'[p] # <<>>]_vars

\* the texts of a positive number
PositiveNumber(text) == text \in {"50", "100"}

\* C20: an alert whose target price is not a positive number is never stored,
\* so it never takes part in an alert check: every price_alerts row has a
\* positive target price; a step taken while the entered text is not a positive
\* number adds no row; and the step that answers "Invalid Price" leaves the rows
\* and the entered text as they are.
C20_InvalidTargetNeverStored ==
  [][/\ \A r \in alerts' : r.target_price > 0
     /\ ~PositiveNumber(alertPrice) => alerts' = alerts
     /\ toasted' = "Invalid Price" /\ toasted # "Invalid Price"
          => /\ alerts' = alerts
             /\ alertPrice' = alertPrice
             /\ ~PositiveNumber(alertPrice)]_vars

\* C20 witness: a non-positive target was entered and refused: the text is
\* still in the input and no row was stored.
C20_Witness ==
  /\ page = "product"
  /\ alertPrice \in {"0", "-5"}
  /\ toasted = "Invalid Price"
  /\ alerts = {}

\* the handler takes a step that moves on to the next product while the call
\* for the current one has neither returned nor been caught
StartsNextUnsettled(j) ==
  /\ Next
  /\ idx'[j] = idx[j] + 1
  /\ returned'[j] = returned[j]
  /\ errors'[j] = errors[j]

\* C21: the handler does not block on one product before starting another:
\* whenever the call for a product is outstanding and a later product of the
\* request remains, the handler can start on the later product.
C21_LaterFetchNotBlocked ==
  \A j \in {1} :
    InLoop(j) /\ idx[j] < Len(productIds[j]) => ENABLED StartsNextUnsettled(j)


\* a string of the stores array that no case of scrapeStore's switch matches
NoAdapter(store) == store # "NotAString" /\ ToLowerCase(store) \notin AdapterNames

AtLeastZero(n) == IF n < 0 THEN 0 ELSE n

\* every unmatched name of an answered request returned, with no quote
UnmatchedReturnsNothing ==
  /\ \A k \in DOMAIN scraped :
       NoAdapter(sstores[scraped[k].pos]) => scraped[k].quotes = <<>>
  /\ spc = "done" /\ sidx >= 1
       => \A i \in DOMAIN sstores : NoAdapter(sstores[i]) => i \in ScrapedAt

\* C22 as stated: each store's call returns at most maxResults quotes and the
\* response carries at most maxResults times the number of requested stores
\* results; a name matching no adapter returns no quote and does not raise.
C22_AtMostMaxResults ==
  /\ \A k \in DOMAIN scraped : Len(scraped[k].quotes) <= smax
  /\ spc = "done" /\ sidx >= 1
       => Len(sresponse.results) <= smax * Len(sstores)
  /\ UnmatchedReturnsNothing

\* C22: as amended: the caps are those of slice(0, maxResults), which for a
\* negative maxResults is zero quotes, not fewer than zero: each store's call
\* returns at most max(maxResults, 0) quotes, the response carries at most
\* max(maxResults, 0) times the number of requested stores results, and a name
\* matching no adapter returns no quote and does not raise.
C22_AtMostMaxResultsOrNone ==
  /\ \A k \in DOMAIN scraped : Len(scraped[k].quotes) <= AtLeastZero(smax)
  /\ spc = "done" /\ sidx >= 1
       => Len(sresponse.results) <= AtLeastZero(smax) * Len(sstores)
  /\ UnmatchedReturnsNothing

\* C22 witness: a request for an adapter and an unmatched name with maxResults
\* zero is answered: the adapter's quote was cut, the unmatched name returned.
C22_Witness ==
  /\ spc = "done" /\ sstores = <<"amazon", "ebay">> /\ smax = 0
  /\ ScrapedAt = {1, 2}
  /\ sresponse.kind = "scraped" /\ sresponse.results = <<>>

\* the AI branch of the call arrived at no product
NoAiProducts(call) ==
  \/ call.outcome \in {"skipped", "raised", "notOk", "unsuccessful"}
  \/ call.outcome = "matches" /\ call.confidence = <<>>

\* C23: on the search page the basic database search runs exactly when the AI
\* search produced no products (no query, the request raised, a non-ok
\* response, an unsuccessful or empty match list, no catalog row for the matched
\* ids); when the AI search produced products the basic search is not run and
\* the products, which are the ones shown, are in order of non-increasing AI
\* confidence.
C23_BasicSearchIffNoAiProducts ==
  \A c \in DOMAIN searches :
    LET call == searches[c]
    IN /\ call.at = "ai" => ~call.basic
       /\ call.at # "ai" => (call.basic <=> NoAiProducts(call))
       /\ call.confidence # <<>>
            => /\ ~call.basic
               /\ call.productData # <<>>
               /\ DOMAIN call.confidence = DOMAIN call.productData
               /\ \A m, n \in DOMAIN call.confidence :
                    m < n => call.confidence[m] >= call.confidence[n]
               /\ products = call.productData

\* C23 witness: the AI search matched both catalog products, the later row of
\* the table with the higher confidence; it is shown first and the basic search
\* did not run.
C23_Witness ==
  /\ page = "search" /\ searches # <<>>
  /\ searches[1].at = "done" /\ ~searches[1].basic
  /\ searches[1].confidence = <<90, 20>>
  /\ products = <<"p2", "p1">>
  /\ DOMAIN productPrices = {"p1", "p2"}

\* the call of performSearch started last: the one for the current searchParams
Latest == searches[Len(searches)]

\* C24: once every search in flight has completed, the products shown are those
\* the search for the most recent parameters arrived at: a slower earlier
\* search never overwrites a later one.
C24_LatestSearchShown ==
  page = "search" /\ searches # <<>> /\ Settled(searches)
                  /\ Latest.productData # <<>>
    => products = Latest.productData

\* a load of the mounted page settles in this step
LoadEnds ==
  /\ page' = page
  /\ \/ inflight /\ ~inflight'
     \/ \E c \in DOMAIN searches :
          c \in DOMAIN searches' /\ searches[c].at # "done" /\ searches'[c].at = "done"

\* C25: every page load clears loading on every path: the step in which
\* performSearch, loadFavorites, loadProductDetails or loadFeaturedProducts
\* settles (success, a rejected call, the product-not-found return) leaves
\* loading false, and a mounted page shows loading only while a load of it is in
\* flight.
C25_EveryLoadClearsLoading ==
  /\ [](page # "none" /\ loading => inflight)
  /\ [][LoadEnds => ~loading']_vars

\* C25 witness: the product page after the product-not-found return: nothing in
\* flight, loading cleared.
C25_Witness ==
  /\ page = "product" /\ product = NoProduct /\ toasted = "Product Not Found"
  /\ ~inflight /\ ~loading

\* the scrape handler has scraped nothing for the request
NothingScraped == results = <<>> /\ attempts = <<>> /\ scraped = <<>>

NamedOnce(j, i) ==
  \A k \in DOMAIN productIds[j] : productIds[j][k] = productIds[j][i] => k = i

\* C27: in every update-prices job there are never more notifications than
\* price updates, every notification refers to a (productId, storeId) pair of
\* the job's updates whose price went down, and a product whose processing
\* raised contributes neither updates nor notifications.
C27_NotificationsWithinUpdates ==
  \A j \in Handlers :
    /\ Len(notifications[j]) <= Len(updates[j])
    /\ \A n \in DOMAIN notifications[j] :
         \E u \in DOMAIN updates[j] :
           /\ updates[j][u].productId = notifications[j][n].productId
           /\ updates[j][u].storeId = notifications[j][n].storeId
           /\ updates[j][u].newPrice < updates[j][u].oldPrice
    /\ \A i \in Logged(j) :
         NamedOnce(j, i)
           => /\ UpdatesOf(j, productIds[j][i]) = <<>>
              /\ IntentsOf(j, productIds[j][i]) = <<>>

FavoriteRowIds == {user_favorites[n].id : n \in DOMAIN user_favorites}

\* C28: removeFavorite changes the list shown only when the delete succeeds, and
\* then removes exactly the favorite with the given id: on the loaded favorites
\* page every step leaves the loaded prices as they are and either leaves the
\* list as it is or drops one favorite from it, whose row the step has deleted,
\* keeping the others in order; a step that deletes no row leaves the list
\* unchanged.
C28_RemoveOnlyOnSuccess ==
  [][page = "favorites" /\ page' = "favorites" /\ ~loading /\ ~loading'
       => /\ productPrices' = productPrices
          /\ \/ favorites' = favorites
             \/ \E n \in DOMAIN favorites :
                  /\ favorites' = SelectSeq(favorites,
                                            LAMBDA fav : fav.id # favorites[n].id)
                  /\ Len(favorites') = Len(favorites) - 1
                  /\ favorites[n].id \notin {user_favorites'[k].id :
                                               k \in DOMAIN user_favorites'}
                  /\ toasted' = "Removed from Favorites"
          /\ user_favorites' = user_favorites => favorites' = favorites]_vars

\* C28 witness: the only favorite shown has been removed; the prices loaded for
\* its product are still held.
C28_Witness ==
  /\ page = "favorites" /\ ~loading
  /\ toasted = "Removed from Favorites"
  /\ favorites = <<>> /\ user_favorites = <<>>
  /\ \E p \in DOMAIN productPrices : productPrices[p] # <<>>

\* C29: the matches an ai-search response carries are in order of non-increasing
\* confidence, each with a confidence above 0.1, and at most maxResults of them
\* (none when maxResults is below zero).
C29_MatchesSortedCappedAboveFloor ==
  apc = "done" /\ aresponse.kind = "matches"
    => /\ \A m, n \in DOMAIN aresponse.matches :
            m < n => aresponse.matches[m].confidence >= aresponse.matches[n].confidence
       /\ \A n \in DOMAIN aresponse.matches :
            aresponse.matches[n].confidence > ConfidenceFloor
       /\ Len(aresponse.matches) <= AtLeastZero(areq.maxResults)

\* C30: the pages are rendered only while auth is not loading and a user is
\* present: whenever the user is null or auth is loading no route is mounted and
\* no load of a page is in flight, so that a sign-out unmounts the routes.
C30_PagesOnlyWhenSignedIn ==
  user = NoUser \/ authLoading
    => page = "none" /\ ~inflight /\ searches = <<>>

\* C30 witness: signed out with the home page's products still in memory: the
\* page was loaded and has been unmounted by the sign-out.
C30_Witness ==
  /\ user = NoUser /\ ~authLoading
  /\ page = "none" /\ featuredProducts # <<>>
====
